---- MODULE Spec2Model ----
(***************************************************************************)
(* Agent OS V2, Trigger.dev job layer: the HTTP dispatch bridge            *)
(* (trigger-jobs/src/api.ts and the API server appended to                 *)
(* trigger/content-generation.ts), the task run functions                  *)
(* (product-hunt-launch, content-generation, analytics-tracking,           *)
(* slack-integration) and the execution substrate that queues, suspends,   *)
(* retries and ends their runs.                                            *)
(*                                                                         *)
(* Spec follows one request from its arrival to the end of the run it      *)
(* triggers, and the status lookups made meanwhile, each at a moment when  *)
(* no handler and no run has a step pending: the bridge keeps nothing from *)
(* one request to the next.  SpecConcurrent has several requests in flight *)
(* together, on the routes that trigger sendSlackMessage and on one        *)
(* trigger route.  The bridge and the run functions share one process      *)
(* environment, as the Slack handlers ("Set environment variable for this  *)
(* request") suppose.                                                      *)
(*                                                                         *)
(* Time is the wall clock in whole hours.  A wait shorter than an hour     *)
(* (wait.for seconds, the retry backoff) is due in the hour it started.    *)
(* A due run is resumed, and a running run reaches its next await or its   *)
(* end, before the clock moves on, and the clock is only followed while    *)
(* some run waits for it: the dates of a payload are relative to the hour  *)
(* the model starts in.  JavaScript values are written as their literals   *)
(* ("''" is the empty string, "'x'" a non-empty one, "undefined" an        *)
(* absent field).                                                          *)
(*                                                                         *)
(* SpecChat is the chat page of the frontend (AgentOSChat): its React      *)
(* state, the values its handlers captured at the last render, and the     *)
(* sendMessage calls it made.  The page and the job layer share no state.  *)
(***************************************************************************)
EXTENDS Integers, Sequences, FiniteSets, TLC

(* ------------------------------ bounds -------------------------------- *)

\* Last hour of the wall clock.
MaxTime == 26
\* Largest launchDate / scheduledDate a payload carries (hours).
MaxDate == 1
\* Required fields of one payload that are absent or falsy, at most.
MaxBad == 1
\* Status lookups (GET /runs/:runId) a client makes.
MaxPolls == 1
\* Messages the user sends from the chat page.
MaxSends == 2
\* Failed attempts the retry delay is computed for.
MaxFailed == 6
\* Requests in flight together in the specification of concurrent requests.
MaxConcurrent == 2

(* ------------------------- program constants -------------------------- *)

\* retry.maxAttempts of the task definitions and of trigger.config.ts
maxAttempts == 3
\* monitorLaunchDay
monitoringHours == 12
updateInterval == 2
\* scheduleTwitterPosts: hours after launch
tweetTimes == <<0, 4, 8>>
\* retries.enabledInDev of trigger.config.ts
enabledInDev == FALSE

(* ------------------------------ routes -------------------------------- *)

PHL == "product-hunt-launch"
CG == "content-generation"
AT == "analytics-tracking"
SLACK_MSG == "agent-os-slack-message"
SLACK_CHANNEL == "agent-os-create-channel"
SLACK_INFO == "agent-os-slack-workspace-info"
SLACK_DEMO == "demo-agent-os-slack-integration"

TriggerRoutes ==
  {"/trigger/product-hunt-launch", "/trigger/content-generation",
   "/trigger/analytics-tracking"}

SlackRoutes ==
  {"/api/trigger/send-slack-message", "/api/trigger/slack-workspace-info",
   "/api/trigger/demo-slack-integration", "/api/trigger/create-slack-channel",
   "/api/agents/dana/send-slack-message"}

Routes == TriggerRoutes \cup SlackRoutes

\* The task a route triggers.
TaskOf(route) ==
  CASE route = "/trigger/product-hunt-launch" -> PHL
    [] route = "/trigger/content-generation" -> CG
    [] route = "/trigger/analytics-tracking" -> AT
    [] route = "/api/trigger/send-slack-message" -> SLACK_MSG
    [] route = "/api/trigger/slack-workspace-info" -> SLACK_INFO
    [] route = "/api/trigger/demo-slack-integration" -> SLACK_DEMO
    [] route = "/api/trigger/create-slack-channel" -> SLACK_CHANNEL
    [] route = "/api/agents/dana/send-slack-message" -> SLACK_MSG

\* The fields a trigger route tests before it dispatches.
RequiredFields(route) ==
  CASE route = "/trigger/product-hunt-launch" ->
         {"productName", "launchDate", "description", "website"}
    [] route = "/trigger/content-generation" ->
         {"contentType", "topic", "targetAudience"}
    [] route = "/trigger/analytics-tracking" ->
         {"eventType", "userId", "properties"}
    [] OTHER -> {}

\* The fixed text of a route's 400 answer.
MissingMessage(route) ==
  CASE route = "/trigger/product-hunt-launch" ->
         "Missing required fields: productName, launchDate, description, website"
    [] route = "/trigger/content-generation" ->
         "Missing required fields: contentType, topic, targetAudience"
    [] route = "/trigger/analytics-tracking" ->
         "Missing required fields: eventType, userId, properties"

(* ------------------------------ payloads ------------------------------ *)

\* What payload.<field> evaluates to.
JSValues == {"undefined", "''", "0", "false", "'x'"}

\* JavaScript truthiness: !v is true exactly for the falsy values.
Truthy(v) == v \notin {"undefined", "''", "0", "false"}

Tokens == {"xoxb-A", "xoxb-B"}
NoDate == -1
Dates == 0 .. MaxDate

\* analytics-tracking: the event types, the caller's properties (none, an
\* ordinary key, keys named like the fields the task sets itself) and the
\* timestamp, which no route validates.
EventTypes == {"product_launch", "signup_spike", "page_view"}
PropertyMaps ==
  {[k \in d |-> "spoofed"] :
     d \in {{}, {"plan"}, {"event_type", "user_id", "timestamp", "source"}}}
Timestamps == {"undefined", "2024-01-01T00:00:00Z"}

FieldMaps(route) ==
  {f \in [RequiredFields(route) -> JSValues] :
     Cardinality({k \in RequiredFields(route) : ~Truthy(f[k])}) <= MaxBad}

AllTruthy(route, f) == \A k \in RequiredFields(route) : Truthy(f[k])

\* The JSON bodies sent to a route.  The optional fields vary only in the
\* payloads whose required fields are all truthy: the handler answers the
\* others before anything reads them.
Payloads(route) ==
  CASE route = "/trigger/product-hunt-launch" ->
         {[fields |-> f, launchDate |-> d, slackWebhook |-> s, twitterHandle |-> t] :
            f \in {g \in FieldMaps(route) : AllTruthy(route, g)},
            d \in Dates, s \in BOOLEAN, t \in BOOLEAN}
         \cup
         {[fields |-> f, launchDate |-> 0, slackWebhook |-> FALSE, twitterHandle |-> FALSE] :
            f \in {g \in FieldMaps(route) : ~AllTruthy(route, g)}}
    [] route = "/trigger/content-generation" ->
         {[fields |-> f, scheduledDate |-> d, hasIntegrations |-> TRUE, integrations |-> i] :
            f \in {g \in FieldMaps(route) : AllTruthy(route, g)},
            d \in {NoDate} \cup Dates, i \in SUBSET {"notion", "slack"}}
         \cup
         {[fields |-> f, scheduledDate |-> d, hasIntegrations |-> FALSE, integrations |-> {}] :
            f \in {g \in FieldMaps(route) : AllTruthy(route, g)},
            d \in {NoDate} \cup Dates}
         \cup
         {[fields |-> f, scheduledDate |-> NoDate, hasIntegrations |-> FALSE, integrations |-> {}] :
            f \in {g \in FieldMaps(route) : ~AllTruthy(route, g)}}
    [] route = "/trigger/analytics-tracking" ->
         {[fields |-> f, scheduledDate |-> d, eventType |-> e, userId |-> "u1",
           properties |-> p, timestamp |-> t] :
            f \in {g \in FieldMaps(route) : AllTruthy(route, g)},
            d \in {NoDate} \cup Dates, e \in EventTypes, p \in PropertyMaps,
            t \in Timestamps}
         \cup
         {[fields |-> f, scheduledDate |-> NoDate, eventType |-> "page_view",
           userId |-> "u1", properties |-> [k \in {} |-> "spoofed"],
           timestamp |-> "undefined"] :
            f \in {g \in FieldMaps(route) : ~AllTruthy(route, g)}}
    [] OTHER -> {[slack_bot_token |-> t] : t \in Tokens}

(* ------------------------------- state -------------------------------- *)

VARIABLES
  now,       \* the wall clock, in hours
  devMode,   \* the tasks run under the local dev server
  envToken,  \* process.env.SLACK_BOT_TOKEN of the bridge process
  reqs,      \* the requests received, in order of arrival
  runs,      \* the runs the substrate created; a run's id is its index
  chat       \* the chat page: its React state, what it rendered, its calls

vars == <<now, devMode, envToken, reqs, runs, chat>>

ReqIds == 1 .. Len(reqs)
RunIds == 1 .. Len(runs)

\* The chat page after its first render: useState initial values.
InitChat ==
  [messages |-> <<>>, input |-> <<>>, isLoading |-> FALSE,
   conversationId |-> "null", conversationState |-> "null",
   view |-> [input |-> <<>>, isLoading |-> FALSE, conversationId |-> "null"],
   calls |-> <<>>]

\* The locals of a run function: every attempt starts with these.
InitLocals ==
  [notified |-> 0, tweets |-> 0, hour |-> 0, updates |-> 0,
   generated |-> FALSE, notion |-> "unset", slack |-> "unset",
   calls |-> 0, sinkFailed |-> FALSE, client |-> "none", waits |-> <<>>,
   tweetedAt |-> <<>>, reported |-> <<>>, rejected |-> FALSE,
   summary |-> [publishedTo |-> {}, failedPublications |-> {}]]

\* The run a trigger call creates.
NewRun(task, payload) ==
  [task |-> task, payload |-> payload, state |-> "queued", pc |-> "start",
   attempt |-> 0, wake |-> 0, loc |-> InitLocals,
   delivered |-> 0, starts |-> 0, backoff |-> 0, result |-> {}, sdk |-> <<>>]

Init ==
  /\ now = 0
  /\ devMode \in BOOLEAN
  /\ envToken = "unset"
  /\ reqs = <<>>
  /\ runs = <<>>
  /\ chat = InitChat

(* --------------------------- dispatch bridge -------------------------- *)

\* A client sends a POST; express has parsed the JSON body.
Arrive(route, payload) ==
  /\ reqs' = Append(reqs, [route |-> route, payload |-> payload, pc |-> "arrived",
                           handle |-> 0, responses |-> <<>>])
  /\ UNCHANGED <<now, devMode, envToken, runs, chat>>

Respond(r, code, body) ==
  reqs' = [reqs EXCEPT ![r].responses = Append(@, [code |-> code, body |-> body]),
                       ![r].pc = "done"]

\* if (!payload.a || !payload.b ...)
Invalid_never(route, payload) == FALSE
Invalid_presenceOnly(route, payload) ==
  \E k \in RequiredFields(route) : payload.fields[k] = "undefined"
Invalid(route, payload) ==
  \E k \in RequiredFields(route) : ~Truthy(payload.fields[k])

\* The body of a 500 answer.
ErrorBody_slackShape(route, message) == [success |-> FALSE, error |-> message]
ErrorBody(route, message) ==
  IF route \in TriggerRoutes
    THEN [success |-> FALSE, error |-> message, task_id |-> TaskOf(route)]
    ELSE [success |-> FALSE, error |-> message]

\* The body of a 200 answer.
SuccessBody(route, handle) ==
  IF route \in TriggerRoutes
    THEN [success |-> TRUE, task_id |-> TaskOf(route), run_id |-> handle,
          status |-> "triggered", triggered_at |-> now]
    ELSE [success |-> TRUE, taskId |-> handle, handle |-> handle]

\* A /trigger/* handler up to its first await: validation, then the
\* trigger call.
HandleTrigger_noReturn(r) ==
  /\ reqs[r].pc = "arrived"
  /\ reqs[r].route \in TriggerRoutes
  /\ IF Invalid(reqs[r].route, reqs[r].payload)
       THEN reqs' = [reqs EXCEPT
              ![r].responses = Append(@, [code |-> 400,
                 body |-> [success |-> FALSE, error |-> MissingMessage(reqs[r].route)]]),
              ![r].pc = "awaitTrigger"]
       ELSE reqs' = [reqs EXCEPT ![r].pc = "awaitTrigger"]
  /\ UNCHANGED <<now, devMode, envToken, runs, chat>>
HandleTrigger(r) ==
  /\ reqs[r].pc = "arrived"
  /\ reqs[r].route \in TriggerRoutes
  /\ IF Invalid(reqs[r].route, reqs[r].payload)
       THEN Respond(r, 400, [success |-> FALSE, error |-> MissingMessage(reqs[r].route)])
       ELSE reqs' = [reqs EXCEPT ![r].pc = "awaitTrigger"]
  /\ UNCHANGED <<now, devMode, envToken, runs, chat>>

\* A Slack handler up to its first await: the token goes into the
\* process environment, then the trigger call.
HandleSlack(r) ==
  /\ reqs[r].pc = "arrived"
  /\ reqs[r].route \in SlackRoutes
  /\ envToken' = reqs[r].payload.slack_bot_token
  /\ reqs' = [reqs EXCEPT ![r].pc = "awaitTrigger"]
  /\ UNCHANGED <<now, devMode, runs, chat>>

\* What a handler hands to task.trigger: the body itself on /trigger/*, an
\* object built from the body, without the token, on the Slack routes.
TriggerArgs(route, payload) ==
  IF route \in TriggerRoutes THEN payload ELSE [channel |-> "general"]

\* task.trigger(payload) reaches the substrate: a run is created, queued,
\* and its handle travels back to the handler.  Nothing is looked up first:
\* the call has no idempotency key.
TriggerReturns_deduplicated(r) ==
  /\ reqs[r].pc = "awaitTrigger"
  /\ LET same == {q \in ReqIds : /\ reqs[q].handle # 0
                                  /\ reqs[q].route = reqs[r].route
                                  /\ reqs[q].payload = reqs[r].payload}
     IN  IF same = {}
           THEN /\ runs' = Append(runs, NewRun(TaskOf(reqs[r].route),
                                               TriggerArgs(reqs[r].route, reqs[r].payload)))
                /\ reqs' = [reqs EXCEPT ![r].pc = "triggered", ![r].handle = Len(runs) + 1]
           ELSE /\ runs' = runs
                /\ reqs' = [reqs EXCEPT ![r].pc = "triggered",
                                        ![r].handle = reqs[CHOOSE q \in same : TRUE].handle]
  /\ UNCHANGED <<now, devMode, envToken, chat>>
TriggerReturns(r) ==
  /\ reqs[r].pc = "awaitTrigger"
  /\ runs' = Append(runs, NewRun(TaskOf(reqs[r].route), TriggerArgs(reqs[r].route, reqs[r].payload)))
  /\ reqs' = [reqs EXCEPT ![r].pc = "triggered", ![r].handle = Len(runs) + 1]
  /\ UNCHANGED <<now, devMode, envToken, chat>>

\* The continuation after await task.trigger(payload): res.json({...}).
HandlerReady_whenRunEnded(r) ==
  /\ reqs[r].pc = "triggered"
  /\ runs[reqs[r].handle].state \in {"succeeded", "failed"}
HandlerReady(r) == reqs[r].pc = "triggered"

HandlerResumes(r) ==
  /\ HandlerReady(r)
  /\ Respond(r, 200, SuccessBody(reqs[r].route, reqs[r].handle))
  /\ UNCHANGED <<now, devMode, envToken, runs, chat>>

\* task.trigger(payload) throws: the catch block answers 500 and does
\* nothing else.
TriggerThrows_cleared(r) ==
  /\ reqs[r].pc = "awaitTrigger"
  /\ Respond(r, 500, ErrorBody(reqs[r].route, "trigger failed"))
  /\ envToken' = IF reqs[r].route \in SlackRoutes THEN "unset" ELSE envToken
  /\ UNCHANGED <<now, devMode, runs, chat>>
TriggerThrows(r) ==
  /\ reqs[r].pc = "awaitTrigger"
  /\ Respond(r, 500, ErrorBody(reqs[r].route, "trigger failed"))
  /\ UNCHANGED <<now, devMode, envToken, runs, chat>>

\* The requests of the POST routes, and the status lookups.
Posted == {r \in ReqIds : reqs[r].route \in Routes}
Polls == {r \in ReqIds : reqs[r].route = "/runs/:runId"}

\* The status GET /runs/:runId reports for a run id.
RunStatus_lookedUp(runId) ==
  IF runId \in RunIds THEN runs[runId].state ELSE "unknown"
RunStatus(runId) == "running"

\* The state the substrate holds for a run id.
Stored(runId) == IF runId \in RunIds THEN runs[runId].state ELSE "none"

\* GET /runs/:runId: the handler has no await, the answer follows at once.
\* createdAt is the time of the answer; its value is not kept.  The field
\* stored is history: what the substrate held for the id at that moment.
GetRun(runId) ==
  /\ Cardinality(Polls) < MaxPolls
  /\ reqs' = Append(reqs,
       [route |-> "/runs/:runId", payload |-> [runId |-> runId], pc |-> "done",
        handle |-> 0, stored |-> Stored(runId),
        responses |-> <<[code |-> 200,
                         body |-> [id |-> runId, status |-> RunStatus(runId),
                                   createdAt |-> "now"]]>>])
  /\ UNCHANGED <<now, devMode, envToken, runs, chat>>

(* ------------------------ execution substrate ------------------------- *)

\* Attempts the substrate gives a run: retry.maxAttempts, and a single one
\* under the dev server, where trigger.config.ts disables retries.
AttemptLimit_oneMore == IF devMode /\ ~enabledInDev THEN 1 ELSE maxAttempts + 1
AttemptLimit == IF devMode /\ ~enabledInDev THEN 1 ELSE maxAttempts

\* The retry block of a task definition; a task without one (the Slack
\* tasks) gets retries.default of trigger.config.ts.
RetryPolicy_sameForAll(task) ==
  [minTimeoutInMs |-> 1000, maxTimeoutInMs |-> 10000, factor |-> 2]
RetryPolicy(task) ==
  CASE task = PHL -> [minTimeoutInMs |-> 1000, maxTimeoutInMs |-> 10000, factor |-> 2]
    [] task = CG -> [minTimeoutInMs |-> 2000, maxTimeoutInMs |-> 15000, factor |-> 2]
    [] task = AT -> [minTimeoutInMs |-> 1000, maxTimeoutInMs |-> 10000, factor |-> 2]
    [] OTHER -> [minTimeoutInMs |-> 1000, maxTimeoutInMs |-> 10000, factor |-> 2]

RECURSIVE Pow(_, _)
Pow(b, e) == IF e = 0 THEN 1 ELSE b * Pow(b, e - 1)

Min(a, b) == IF a <= b THEN a ELSE b

\* The delay, in milliseconds, before the attempt that follows failed
\* attempt n: exponential from minTimeoutInMs, capped at maxTimeoutInMs.
RetryDelay(task, n) ==
  Min(RetryPolicy(task).minTimeoutInMs * Pow(RetryPolicy(task).factor, n - 1),
      RetryPolicy(task).maxTimeoutInMs)

\* wait.until({date}): a date that is not in the future does not suspend.
\* loc.waits lists the awaits of waits the attempt has entered, each by the
\* step that follows it.
WaitUntil_alwaysSuspends(run, date, next) ==
  [run EXCEPT !.state = "suspended", !.wake = date, !.pc = next,
              !.loc.waits = Append(@, next)]
WaitUntil(run, date, next) ==
  IF date <= now
    THEN [run EXCEPT !.pc = next, !.loc.waits = Append(@, next)]
    ELSE [run EXCEPT !.state = "suspended", !.wake = date, !.pc = next,
                     !.loc.waits = Append(@, next)]

\* wait.for({hours}) / wait.for({seconds}), the duration in whole hours.
WaitFor_notAwaited(run, hours, next) ==
  [run EXCEPT !.pc = next, !.loc.waits = Append(@, next)]
WaitFor(run, hours, next) ==
  [run EXCEPT !.state = "suspended", !.wake = now + hours, !.pc = next,
              !.loc.waits = Append(@, next)]

\* The run function threw: another attempt after the backoff while attempts
\* are left, the terminal failed state otherwise.
FailAttempt_requeued(run) ==
  IF run.attempt < AttemptLimit
    THEN [run EXCEPT !.state = "queued", !.pc = "retry", !.wake = 0,
                     !.backoff = RetryDelay(run.task, run.attempt)]
    ELSE [run EXCEPT !.state = "failed", !.pc = "end", !.wake = 0]
FailAttempt(run) ==
  IF run.attempt < AttemptLimit
    THEN [run EXCEPT !.state = "running", !.pc = "retry", !.wake = 0,
                     !.backoff = RetryDelay(run.task, run.attempt)]
    ELSE [run EXCEPT !.state = "failed", !.pc = "end", !.wake = 0]

\* The run function returned; run.result holds what it returned, once it
\* has.
Succeed(run) == [run EXCEPT !.state = "succeeded", !.pc = "end", !.wake = 0]

Running(id, pc) == runs[id].state = "running" /\ runs[id].pc = pc

SetRun(id, run) ==
  /\ runs' = [runs EXCEPT ![id] = run]
  /\ UNCHANGED <<now, devMode, envToken, reqs, chat>>

\* A worker takes a queued run: its first attempt starts.
StartAttempt(id) ==
  /\ runs[id].state = "queued"
  /\ SetRun(id, [runs[id] EXCEPT !.state = "running", !.pc = "start",
                                 !.attempt = 1, !.loc = InitLocals])

\* What an attempt after a failed one starts with.
RetryLocals_checkpointed(run) == run.loc
RetryLocals(run) == InitLocals

\* After the backoff the whole run function is called again.
Retry(id) ==
  /\ Running(id, "retry")
  /\ SetRun(id, [runs[id] EXCEPT !.pc = "start", !.attempt = @ + 1,
                                 !.backoff = 0,
                                 !.loc = RetryLocals(runs[id])])

\* The time a suspended run waits for has come.
Resume(id) ==
  /\ runs[id].state = "suspended"
  /\ runs[id].wake <= now
  /\ SetRun(id, [runs[id] EXCEPT !.state = "running", !.wake = 0])

\* The await of a wait rejects (the substrate cannot keep the wait): the
\* run function is resumed with the rejection, which a try block around
\* the await catches.
WaitThrows(id) ==
  /\ runs[id].state = "suspended"
  /\ IF runs[id].task = CG /\ runs[id].pc = "notionDone"
       THEN SetRun(id, [runs[id] EXCEPT !.state = "running", !.wake = 0,
                                        !.pc = "slack", !.loc.notion = "failed",
                                        !.loc.rejected = TRUE])
       ELSE SetRun(id, [runs[id] EXCEPT !.state = "running", !.wake = 0,
                                        !.pc = "thrown", !.loc.rejected = TRUE])

\* No try block encloses the await: the rejection leaves the run function.
Unhandled(id) ==
  /\ Running(id, "thrown")
  /\ SetRun(id, FailAttempt(runs[id]))

\* Something a run or a handler does within the hour is still pending.
Busy ==
  \/ \E id \in RunIds :
       \/ runs[id].state = "running"
       \/ runs[id].state = "suspended" /\ runs[id].wake <= now
  \/ \E r \in ReqIds : reqs[r].pc # "done"

Tick ==
  /\ ~Busy
  /\ \E id \in RunIds : runs[id].state = "suspended"
  /\ now < MaxTime
  /\ now' = now + 1
  /\ UNCHANGED <<devMode, envToken, reqs, runs, chat>>

(* ------------------------- product-hunt-launch ------------------------ *)

\* What a fetch to a webhook comes back with.
FetchOutcomes == {"ok", "non2xx", "throws"}
\* What a call of the Slack SDK comes back with.
SdkOutcomes == {"ok", "throws"}

\* run: the first statements, up to await wait.until({date: launchDateTime}).
LaunchWait_skipped(run) == [run EXCEPT !.pc = "notify"]
LaunchWait(run) == WaitUntil(run, run.payload.launchDate, "notify")

PHL_Launch(id) ==
  /\ Running(id, "start")
  /\ runs[id].task = PHL
  /\ SetRun(id, LaunchWait(runs[id]))

\* sendSlackNotification: the POST, then !response.ok or a thrown error is
\* logged and thrown again.
sendSlackNotification_onceOnly(run, outcome) ==
  IF run.delivered > 0
    THEN [run EXCEPT !.pc = "tweet"]
    ELSE IF outcome = "ok"
      THEN [run EXCEPT !.pc = "tweet", !.loc.notified = @ + 1, !.delivered = @ + 1]
      ELSE FailAttempt([run EXCEPT !.loc.sinkFailed = TRUE])
sendSlackNotification_swallowed(run, outcome) ==
  IF outcome = "ok"
    THEN [run EXCEPT !.pc = "tweet", !.loc.notified = @ + 1, !.delivered = @ + 1]
    ELSE [run EXCEPT !.pc = "tweet", !.loc.sinkFailed = TRUE]
sendSlackNotification(run, outcome) ==
  IF outcome = "ok"
    THEN [run EXCEPT !.pc = "tweet", !.loc.notified = @ + 1, !.delivered = @ + 1]
    ELSE FailAttempt([run EXCEPT !.loc.sinkFailed = TRUE])

\* Step 1: if (payload.slackWebhook) await sendSlackNotification(payload)
PHL_Notify(id, outcome) ==
  /\ Running(id, "notify")
  /\ runs[id].payload.slackWebhook
  /\ SetRun(id, sendSlackNotification(runs[id], outcome))

PHL_NoWebhook(id) ==
  /\ Running(id, "notify")
  /\ ~runs[id].payload.slackWebhook
  /\ SetRun(id, [runs[id] EXCEPT !.pc = "tweet"])

\* Step 2, scheduleTwitterPosts: the head of one loop iteration, up to
\* await wait.until({date: tweetTime}); tweetTime counts from Date.now().
PHL_ScheduleTweet(id) ==
  /\ Running(id, "tweet")
  /\ LET run == runs[id] IN
       IF run.payload.twitterHandle /\ run.loc.tweets < Len(tweetTimes)
         THEN SetRun(id, WaitUntil(run, now + tweetTimes[run.loc.tweets + 1], "tweeted"))
         ELSE SetRun(id, [run EXCEPT !.pc = "monitor"])

\* "Tweet i would be posted now"; loc.tweetedAt keeps the hour of each.
PHL_PostTweet(id) ==
  /\ Running(id, "tweeted")
  /\ SetRun(id, [runs[id] EXCEPT !.pc = "tweet", !.loc.tweets = @ + 1,
                                 !.loc.tweetedAt = Append(@, now)])

\* Step 3, monitorLaunchDay: the loop test and await wait.for({hours}); after
\* the loop the run function returns.
PHL_MonitorWait_oneMore(id) ==
  /\ Running(id, "monitor")
  /\ LET run == runs[id] IN
       IF run.loc.hour <= monitoringHours
         THEN SetRun(id, WaitFor(run, updateInterval, "update"))
         ELSE SetRun(id, Succeed([run EXCEPT !.result = {[success |-> TRUE]}]))
PHL_MonitorWait(id) ==
  /\ Running(id, "monitor")
  /\ LET run == runs[id] IN
       IF run.loc.hour < monitoringHours
         THEN SetRun(id, WaitFor(run, updateInterval, "update"))
         ELSE SetRun(id, Succeed([run EXCEPT !.result = {[success |-> TRUE]}]))

\* "Launch day update - <hour + updateInterval> hours elapsed"
PHL_Update(id) ==
  /\ Running(id, "update")
  /\ SetRun(id, [runs[id] EXCEPT !.pc = "monitor", !.loc.updates = @ + 1,
                                 !.loc.reported = Append(@, runs[id].loc.hour + updateInterval),
                                 !.loc.hour = @ + updateInterval])

(* -------------------------- content-generation ------------------------ *)

\* Step 1, generateContent: await wait.for({seconds: 5})
CG_Generate(id) ==
  /\ Running(id, "start")
  /\ runs[id].task = CG
  /\ SetRun(id, WaitFor(runs[id], 0, "generated"))

\* The templates are filled in; Step 2: if (payload.scheduledDate) wait.
CG_Schedule_unscheduled(id) ==
  /\ Running(id, "generated")
  /\ SetRun(id, [runs[id] EXCEPT !.loc.generated = TRUE, !.pc = "publish"])
CG_Schedule(id) ==
  /\ Running(id, "generated")
  /\ LET run == [runs[id] EXCEPT !.loc.generated = TRUE] IN
       IF run.payload.scheduledDate # NoDate
         THEN SetRun(id, WaitUntil(run, run.payload.scheduledDate, "publish"))
         ELSE SetRun(id, [run EXCEPT !.pc = "publish"])

\* Step 3, publishContent: payload.integrations.notion is read (a TypeError
\* when the payload has no integrations), then the simulated Notion call.
CG_Publish(id) ==
  /\ Running(id, "publish")
  /\ LET run == runs[id] IN
       IF ~run.payload.hasIntegrations
         THEN SetRun(id, FailAttempt(run))
         ELSE IF "notion" \in run.payload.integrations
           THEN SetRun(id, WaitFor(run, 0, "notionDone"))
           ELSE SetRun(id, [run EXCEPT !.pc = "slack"])

CG_NotionDone(id) ==
  /\ Running(id, "notionDone")
  /\ SetRun(id, [runs[id] EXCEPT !.pc = "slack", !.loc.notion = "ok"])

\* publishContent, the Slack part: the POST inside try; the catch block
\* records the failure in results.slack and goes on.
publishSlack_unrecorded(run, outcome) ==
  IF outcome = "ok"
    THEN [run EXCEPT !.pc = "summary", !.loc.slack = "ok", !.delivered = @ + 1]
    ELSE [run EXCEPT !.pc = "summary", !.loc.sinkFailed = TRUE]
publishSlack(run, outcome) ==
  IF outcome = "ok"
    THEN [run EXCEPT !.pc = "summary", !.loc.slack = "ok", !.delivered = @ + 1]
    ELSE [run EXCEPT !.pc = "summary", !.loc.slack = "failed", !.loc.sinkFailed = TRUE]

CG_Slack(id, outcome) ==
  /\ Running(id, "slack")
  /\ "slack" \in runs[id].payload.integrations
  /\ SetRun(id, publishSlack(runs[id], outcome))

CG_NoSlack(id) ==
  /\ Running(id, "slack")
  /\ "slack" \notin runs[id].payload.integrations
  /\ SetRun(id, [runs[id] EXCEPT !.pc = "summary"])

\* publishContent's results: an entry for each integration it handled.
PublishResults(run) ==
  [k \in {i \in {"notion", "slack"} : run.loc[i] # "unset"} |->
     [success |-> run.loc[k] = "ok"]]

\* The summary sendCompletionNotifications logs.
Summary(results) ==
  [publishedTo |-> {k \in DOMAIN results : results[k].success},
   failedPublications |-> {k \in DOMAIN results : ~results[k].success}]

\* Step 4, sendCompletionNotifications, and the return of the run function.
CG_Complete(id) ==
  /\ Running(id, "summary")
  /\ SetRun(id, Succeed([runs[id] EXCEPT
         !.loc.summary = Summary(PublishResults(runs[id])),
         !.result = {[success |-> TRUE, publishResults |-> PublishResults(runs[id])]}]))

(* -------------------------- analytics-tracking ------------------------ *)

\* if (payload.scheduledDate) await wait.until({date: scheduledDateTime})
AT_Wait(id) ==
  /\ Running(id, "start")
  /\ runs[id].task = AT
  /\ LET run == runs[id] IN
       IF run.payload.scheduledDate # NoDate
         THEN SetRun(id, WaitUntil(run, run.payload.scheduledDate, "process"))
         ELSE SetRun(id, [run EXCEPT !.pc = "process"])

\* { ...a, ...b }: the keys of both, a later key replacing an earlier one.
Merge_firstWins(a, b) ==
  [k \in DOMAIN a \cup DOMAIN b |-> IF k \in DOMAIN a THEN a[k] ELSE b[k]]
Merge(a, b) ==
  [k \in DOMAIN a \cup DOMAIN b |-> IF k \in DOMAIN b THEN b[k] ELSE a[k]]

\* Step 1: processedEvent = { ...payload.properties, event_type: ..., ... }
ProcessedEvent(payload) ==
  Merge(payload.properties,
        [event_type |-> payload.eventType, user_id |-> payload.userId,
         timestamp |-> payload.timestamp, processed_at |-> "now",
         session_id |-> "session_now", source |-> "agentos_automation"])

\* Step 4: one alert for the two critical event types.
Alerts(payload) ==
  IF payload.eventType = "product_launch" \/ payload.eventType = "signup_spike"
    THEN <<[type |-> "slack_notification", message |-> payload.eventType]>>
    ELSE <<>>

\* Steps 1 to 5 have no await and cannot throw: the result is returned.
AT_Process(id) ==
  /\ Running(id, "process")
  /\ SetRun(id, Succeed([runs[id] EXCEPT !.result =
         {[success |-> TRUE,
           event_processed |-> ProcessedEvent(runs[id].payload),
           alerts_triggered |-> Alerts(runs[id].payload)]}]))

(* -------------------------- slack-integration ------------------------- *)

SlackTasks == {SLACK_MSG, SLACK_CHANNEL, SLACK_INFO, SLACK_DEMO}

\* The SDK calls a Slack task awaits, in order.
SdkCalls(task) ==
  CASE task = SLACK_MSG -> <<"chat.postMessage">>
    [] task = SLACK_CHANNEL -> <<"conversations.create", "chat.postMessage">>
    [] task = SLACK_INFO -> <<"team.info", "conversations.list", "auth.test">>
    [] task = SLACK_DEMO -> <<"chat.postMessage">>

\* The token a Slack task builds its client from:
\* process.env.SLACK_BOT_TOKEN, read when the run function executes.  The
\* run's payload carries no token.
ClientToken_ofRequest(id) ==
  LET r == CHOOSE q \in ReqIds : reqs[q].handle = id
  IN  reqs[r].payload.slack_bot_token
ClientToken(id) == envToken

\* new WebClient(process.env.SLACK_BOT_TOKEN)
Slack_Client(id) ==
  /\ Running(id, "start")
  /\ runs[id].task \in SlackTasks
  /\ SetRun(id, [runs[id] EXCEPT !.pc = "call", !.loc.client = ClientToken(id)])

\* The SDK call an attempt makes next: the calls follow each other in the
\* run function, which every attempt enters at its top.
SdkCall_resumed(run) ==
  IF /\ run.task = SLACK_CHANNEL
     /\ \E i \in 1 .. Len(run.sdk) : run.sdk[i] = <<"conversations.create", "ok">>
    THEN "chat.postMessage"
    ELSE SdkCalls(run.task)[run.loc.calls + 1]
SdkCall(run) == SdkCalls(run.task)[run.loc.calls + 1]

\* One awaited SDK call inside try: its result is kept, or the catch block
\* logs the error and throws it again; after the last call the task returns.
\* run.sdk lists the calls the run has made, with their outcomes.
Slack_Call(id, outcome) ==
  /\ Running(id, "call")
  /\ LET run == [runs[id] EXCEPT !.sdk = Append(@, <<SdkCall(runs[id]), outcome>>)] IN
       IF outcome = "ok"
         THEN IF run.loc.calls + 1 = Len(SdkCalls(run.task))
                THEN SetRun(id, Succeed([run EXCEPT !.loc.calls = @ + 1,
                                                    !.result = {[success |-> TRUE]}]))
                ELSE SetRun(id, [run EXCEPT !.loc.calls = @ + 1])
         ELSE SetRun(id, FailAttempt([run EXCEPT !.loc.sinkFailed = TRUE]))

(* --------------------------- specification ---------------------------- *)

Next ==
  \/ Posted = {} /\ \E route \in Routes : \E payload \in Payloads(route) : Arrive(route, payload)
  \/ ~Busy /\ \E runId \in 1 .. Len(runs) + 1 : GetRun(runId)
  \/ \E r \in ReqIds : HandleTrigger(r)
  \/ \E r \in ReqIds : HandleSlack(r)
  \/ \E r \in ReqIds : TriggerReturns(r)
  \/ \E r \in ReqIds : TriggerThrows(r)
  \/ \E r \in ReqIds : HandlerResumes(r)
  \/ \E id \in RunIds : StartAttempt(id)
  \/ \E id \in RunIds : Retry(id)
  \/ \E id \in RunIds : Resume(id)
  \/ \E id \in RunIds : WaitThrows(id)
  \/ \E id \in RunIds : Unhandled(id)
  \/ \E id \in RunIds : PHL_Launch(id)
  \/ \E id \in RunIds : \E outcome \in FetchOutcomes : PHL_Notify(id, outcome)
  \/ \E id \in RunIds : PHL_NoWebhook(id)
  \/ \E id \in RunIds : PHL_ScheduleTweet(id)
  \/ \E id \in RunIds : PHL_PostTweet(id)
  \/ \E id \in RunIds : PHL_MonitorWait(id)
  \/ \E id \in RunIds : PHL_Update(id)
  \/ \E id \in RunIds : CG_Generate(id)
  \/ \E id \in RunIds : CG_Schedule(id)
  \/ \E id \in RunIds : CG_Publish(id)
  \/ \E id \in RunIds : CG_NotionDone(id)
  \/ \E id \in RunIds : \E outcome \in FetchOutcomes : CG_Slack(id, outcome)
  \/ \E id \in RunIds : CG_NoSlack(id)
  \/ \E id \in RunIds : CG_Complete(id)
  \/ \E id \in RunIds : AT_Wait(id)
  \/ \E id \in RunIds : AT_Process(id)
  \/ \E id \in RunIds : Slack_Client(id)
  \/ \E id \in RunIds : \E outcome \in SdkOutcomes : Slack_Call(id, outcome)
  \/ Tick

Spec == Init /\ [][Next]_vars

(* ------------------------- concurrent requests ------------------------ *)

\* The requests in flight together: the two routes that trigger
\* sendSlackMessage, with either token, and /trigger/content-generation
\* with a Slack integration or without its topic.
ConcurrentRoutes ==
  {"/api/trigger/send-slack-message", "/api/agents/dana/send-slack-message",
   "/trigger/content-generation"}

ConcurrentPayloads(route) ==
  IF route \in SlackRoutes
    THEN Payloads(route)
    ELSE {p \in Payloads(route) :
            \/ /\ AllTruthy(route, p.fields)
               /\ \A k \in RequiredFields(route) : p.fields[k] = "'x'"
               /\ p.scheduledDate = NoDate
               /\ p.integrations = {"slack"}
            \/ /\ p.fields["topic"] = "undefined"}

NextConcurrent ==
  \/ /\ Cardinality(Posted) < MaxConcurrent
     /\ \E route \in ConcurrentRoutes :
          \E payload \in ConcurrentPayloads(route) : Arrive(route, payload)
  \/ \E r \in ReqIds : HandleTrigger(r)
  \/ \E r \in ReqIds : HandleSlack(r)
  \/ \E r \in ReqIds : TriggerReturns(r)
  \/ \E r \in ReqIds : TriggerThrows(r)
  \/ \E r \in ReqIds : HandlerResumes(r)
  \/ \E id \in RunIds : StartAttempt(id)
  \/ \E id \in RunIds : Retry(id)
  \/ \E id \in RunIds : Resume(id)
  \/ \E id \in RunIds : WaitThrows(id)
  \/ \E id \in RunIds : Unhandled(id)
  \/ \E id \in RunIds : CG_Generate(id)
  \/ \E id \in RunIds : CG_Schedule(id)
  \/ \E id \in RunIds : CG_Publish(id)
  \/ \E id \in RunIds : \E outcome \in FetchOutcomes : CG_Slack(id, outcome)
  \/ \E id \in RunIds : CG_Complete(id)
  \/ \E id \in RunIds : Slack_Client(id)
  \/ \E id \in RunIds : \E outcome \in SdkOutcomes : Slack_Call(id, outcome)

SpecConcurrent == Init /\ [][NextConcurrent]_vars

(* ------------------------------ fairness ------------------------------ *)

\* The steps the bridge and the substrate take by themselves: a handler
\* goes on after its await, a worker takes a queued run, a due run is
\* resumed, a running run function reaches its next await or its end, the
\* clock goes on.  The requests of clients, a throwing trigger call and a
\* rejected wait are not among them.
Progress ==
  \/ \E r \in ReqIds : HandleTrigger(r)
  \/ \E r \in ReqIds : HandleSlack(r)
  \/ \E r \in ReqIds : TriggerReturns(r)
  \/ \E r \in ReqIds : HandlerResumes(r)
  \/ \E id \in RunIds : StartAttempt(id)
  \/ \E id \in RunIds : Retry(id)
  \/ \E id \in RunIds : Resume(id)
  \/ \E id \in RunIds : Unhandled(id)
  \/ \E id \in RunIds : PHL_Launch(id)
  \/ \E id \in RunIds : \E outcome \in FetchOutcomes : PHL_Notify(id, outcome)
  \/ \E id \in RunIds : PHL_NoWebhook(id)
  \/ \E id \in RunIds : PHL_ScheduleTweet(id)
  \/ \E id \in RunIds : PHL_PostTweet(id)
  \/ \E id \in RunIds : PHL_MonitorWait(id)
  \/ \E id \in RunIds : PHL_Update(id)
  \/ \E id \in RunIds : CG_Generate(id)
  \/ \E id \in RunIds : CG_Schedule(id)
  \/ \E id \in RunIds : CG_Publish(id)
  \/ \E id \in RunIds : CG_NotionDone(id)
  \/ \E id \in RunIds : \E outcome \in FetchOutcomes : CG_Slack(id, outcome)
  \/ \E id \in RunIds : CG_NoSlack(id)
  \/ \E id \in RunIds : CG_Complete(id)
  \/ \E id \in RunIds : AT_Wait(id)
  \/ \E id \in RunIds : AT_Process(id)
  \/ \E id \in RunIds : Slack_Client(id)
  \/ \E id \in RunIds : \E outcome \in SdkOutcomes : Slack_Call(id, outcome)
  \/ Tick

SpecFair == Spec /\ WF_vars(Progress)

(* ------------------------------- chat UI ------------------------------ *)

\* What the input box holds, character by character.
Inputs == {<<>>, <<" ">>, <<"h">>, <<" ", "h", " ">>}

RECURSIVE TrimStart(_)
TrimStart(s) ==
  IF s # <<>> /\ Head(s) = " " THEN TrimStart(Tail(s)) ELSE s

RECURSIVE TrimEnd(_)
TrimEnd(s) ==
  IF s # <<>> /\ s[Len(s)] = " "
  THEN TrimEnd(SubSeq(s, 1, Len(s) - 1))
  ELSE s

\* String.prototype.trim, for the space character.
Trim(s) == TrimEnd(TrimStart(s))

\* The agent_name of each entry of data.agent_responses.
AgentResponses == {<<>>, <<"Alex">>, <<"Alex", "Dana">>}

\* How a chat request ends: fetch rejects, the response is not ok, or it is
\* ok and its JSON body carries any of conversation_id, conversation_state
\* and agent_responses (fields names the optional ones present).
ChatReplies ==
  {[kind |-> k, conversation_id |-> "undefined",
    conversation_state |-> "undefined", fields |-> {},
    agent_responses |-> <<>>] : k \in {"rejected", "not_ok"}}
  \cup
  {[kind |-> "ok", conversation_id |-> c, conversation_state |-> s,
    fields |-> f, agent_responses |-> a] :
      c \in {"undefined", "''", "c1", "c2"},
      s \in {"undefined", "ready"},
      f \in {{"agent_responses"}}, a \in AgentResponses}
  \cup
  {[kind |-> "ok", conversation_id |-> c, conversation_state |-> s,
    fields |-> {}, agent_responses |-> <<>>] :
      c \in {"undefined", "''", "c1", "c2"},
      s \in {"undefined", "ready"}}

\* conversationId ? `/chat/continue/${conversationId}` : '/chat/start'
Endpoint(conversationId) ==
  IF conversationId # "null" /\ Truthy(conversationId)
  THEN [path |-> "/chat/continue", conversationId |-> conversationId]
  ELSE [path |-> "/chat/start", conversationId |-> "null"]

UserMessage(input) ==
  [sender |-> "user", agentName |-> "undefined", content |-> input]

AgentMessages(responses) ==
  [i \in 1 .. Len(responses) |->
     [sender |-> "agent", agentName |-> responses[i],
      content |-> <<"response.content">>]]

ErrorMessage ==
  [sender |-> "agent", agentName |-> "System",
   content |-> <<"Sorry, I encountered an error.">>]

\* onChange of the input box, which is disabled while isLoading is rendered.
TypeInput(text) ==
  /\ ~chat.view.isLoading
  /\ text # chat.input
  /\ chat' = [chat EXCEPT !.input = text, !.view.input = text]
  /\ UNCHANGED <<now, devMode, envToken, reqs, runs>>

\* sendMessage up to its fetch: it reads input, isLoading and conversationId
\* as the render that created it captured them, and the page is rendered
\* again before the next event is handled.
SendMessage ==
  /\ Len(chat.calls) < MaxSends
  /\ ~(Trim(chat.view.input) = <<>> \/ chat.view.isLoading)
  /\ chat' = [chat EXCEPT
       !.messages = Append(@, UserMessage(chat.view.input)),
       !.input = <<>>,
       !.isLoading = TRUE,
       !.view.input = <<>>,
       !.view.isLoading = TRUE,
       !.calls = Append(@, [endpoint |-> Endpoint(chat.view.conversationId),
                            conversationId |-> chat.view.conversationId,
                            input |-> chat.view.input,
                            reply |-> {}])]
  /\ UNCHANGED <<now, devMode, envToken, reqs, runs>>

SetsConversationId_always(call, data) ==
  Truthy(data.conversation_id)

\* if (!conversationId && data.conversation_id), on the call's conversationId
SetsConversationId(call, data) ==
  /\ ~(call.conversationId # "null" /\ Truthy(call.conversationId))
  /\ Truthy(data.conversation_id)

\* What a finished call keeps of its reply: how the request ended, and the
\* conversation_id and the agent responses of an ok response.
KeptOf(reply) ==
  [kind |-> reply.kind, conversation_id |-> reply.conversation_id,
   agent_responses |-> reply.agent_responses]

Reply_noFinally(k, reply) ==
  /\ k \in DOMAIN chat.calls
  /\ chat.calls[k].reply = {}
  /\ LET call == chat.calls[k]
         thrown == reply.kind # "ok"
     IN  chat' = [chat EXCEPT
           !.conversationId =
              IF ~thrown /\ SetsConversationId(call, reply)
              THEN reply.conversation_id ELSE @,
           !.conversationState =
              IF ~thrown /\ Truthy(reply.conversation_state)
              THEN reply.conversation_state ELSE @,
           !.messages =
              @ \o (IF thrown THEN <<ErrorMessage>>
                    ELSE IF "agent_responses" \in reply.fields
                         THEN AgentMessages(reply.agent_responses)
                         ELSE <<>>),
           !.isLoading = thrown,
           !.calls[k].reply = {KeptOf(reply)}]
  /\ UNCHANGED <<now, devMode, envToken, reqs, runs>>

\* sendMessage from the end of its fetch to the end of its finally block.
Reply(k, reply) ==
  /\ k \in DOMAIN chat.calls
  /\ chat.calls[k].reply = {}
  /\ LET call == chat.calls[k]
         thrown == reply.kind # "ok"
     IN  chat' = [chat EXCEPT
           !.conversationId =
              IF ~thrown /\ SetsConversationId(call, reply)
              THEN reply.conversation_id ELSE @,
           !.conversationState =
              IF ~thrown /\ Truthy(reply.conversation_state)
              THEN reply.conversation_state ELSE @,
           !.messages =
              @ \o (IF thrown THEN <<ErrorMessage>>
                    ELSE IF "agent_responses" \in reply.fields
                         THEN AgentMessages(reply.agent_responses)
                         ELSE <<>>),
           !.isLoading = FALSE,
           !.calls[k].reply = {KeptOf(reply)}]
  /\ UNCHANGED <<now, devMode, envToken, reqs, runs>>

\* The page is rendered with the state the last sendMessage left.
Render ==
  /\ chat.view # [input |-> chat.input, isLoading |-> chat.isLoading,
                  conversationId |-> chat.conversationId]
  /\ chat' = [chat EXCEPT
       !.view = [input |-> chat.input, isLoading |-> chat.isLoading,
                 conversationId |-> chat.conversationId]]
  /\ UNCHANGED <<now, devMode, envToken, reqs, runs>>

NextChat ==
  \/ \E text \in Inputs : TypeInput(text)
  \/ SendMessage
  \/ \E k \in 1 .. Len(chat.calls) : \E reply \in ChatReplies : Reply(k, reply)
  \/ Render

SpecChat == Init /\ [][NextChat]_vars

(* ------------------------------ properties ---------------------------- *)

\* The values !v takes for true, written out.
FalsyLiterals == {"undefined", "''", "0", "false"}

OnTrigger(r) == reqs[r].route \in TriggerRoutes
Handled(r) == reqs[r].pc # "arrived"
Answered(r) == reqs[r].pc = "done"
Answer(r) == reqs[r].responses[1]
LacksField(r) ==
  \E k \in RequiredFields(reqs[r].route) : reqs[r].payload.fields[k] = "undefined"
HasFalsyField(r) ==
  \E k \in RequiredFields(reqs[r].route) : reqs[r].payload.fields[k] \in FalsyLiterals
Dispatched(r) ==
  \/ reqs[r].pc \in {"awaitTrigger", "triggered"}
  \/ Answered(r) /\ Answer(r).code \in {200, 500}

\* C1: a request to a /trigger/* route whose payload lacks a required field
\* is answered 400 with success=false and the fixed message of the route, as
\* the handler's only answer; trigger is not called and no run exists for it.
C1_MissingFieldAnswered400 ==
  \A r \in ReqIds :
    (OnTrigger(r) /\ LacksField(r) /\ Handled(r)) =>
      /\ reqs[r].responses =
           <<[code |-> 400,
              body |-> [success |-> FALSE, error |-> MissingMessage(reqs[r].route)]]>>
      /\ reqs[r].pc = "done"
      /\ reqs[r].handle = 0
      /\ runs = <<>>

C1_Witness ==
  \E r \in ReqIds :
    /\ OnTrigger(r) /\ LacksField(r) /\ Answered(r)
    /\ Answer(r).code = 400
    /\ Answer(r).body.error = "Missing required fields: contentType, topic, targetAudience"
    /\ reqs[r].payload.fields["topic"] = "undefined"

\* C2 (as stated): every request to a /trigger/* route that carries all the
\* required fields is answered 200 with success=true, the task_id, status
\* "triggered" and the run_id of the handle.
C2_Original ==
  \A r \in ReqIds :
    (OnTrigger(r) /\ ~LacksField(r) /\ Answered(r)) =>
      /\ Answer(r).code = 200
      /\ Answer(r).body.success
      /\ Answer(r).body.run_id = reqs[r].handle

\* C2 (amended): a request to a /trigger/* route whose required fields are
\* all truthy and whose trigger call returned a handle is answered 200 with
\* success=true, the task_id of the route, status "triggered" and run_id equal
\* to the handle, which names a run of that task; and once the handle is
\* there the answer can be sent whatever the state of the run is.
C2_TriggeredAnswer ==
  \A r \in ReqIds :
    OnTrigger(r) =>
      /\ (~HasFalsyField(r) /\ Answered(r) /\ reqs[r].handle # 0) =>
           /\ Len(reqs[r].responses) = 1
           /\ Answer(r).code = 200
           /\ Answer(r).body.success = TRUE
           /\ Answer(r).body.task_id = TaskOf(reqs[r].route)
           /\ Answer(r).body.status = "triggered"
           /\ Answer(r).body.run_id = reqs[r].handle
           /\ reqs[r].handle \in RunIds
           /\ runs[reqs[r].handle].task = TaskOf(reqs[r].route)
      /\ (reqs[r].pc = "triggered") =>
           /\ reqs[r].handle \in RunIds
           /\ ENABLED HandlerResumes(r)

C2_Witness ==
  \E r \in ReqIds :
    /\ OnTrigger(r) /\ Answered(r)
    /\ Answer(r).code = 200
    /\ runs[Answer(r).body.run_id].state = "queued"

\* C3 (as stated): a /trigger/* route answers 400 only if a required field
\* is absent from the payload.
C3_Original ==
  \A r \in ReqIds :
    (OnTrigger(r) /\ Answered(r) /\ Answer(r).code = 400) => LacksField(r)

\* C3 (amended): the validation is a truthiness test.  A /trigger/* route
\* answers 400 exactly when a required field is absent or falsy (undefined,
\* '', 0, false); a payload whose required fields are all truthy is
\* dispatched whatever their values are.
C3_TruthinessTest ==
  \A r \in ReqIds :
    (OnTrigger(r) /\ Handled(r)) =>
      /\ HasFalsyField(r) <=> (Answered(r) /\ Answer(r).code = 400)
      /\ ~HasFalsyField(r) <=> Dispatched(r)

C3_Witness ==
  \E r \in ReqIds :
    /\ OnTrigger(r) /\ Answered(r) /\ ~LacksField(r)
    /\ \E k \in RequiredFields(reqs[r].route) : reqs[r].payload.fields[k] = "''"
    /\ Answer(r).code = 400

\* C4 (as stated): on every route that dispatches a task, the 500 answer
\* holds success=false, the error message and the task_id.
C4_Original ==
  \A r \in ReqIds :
    (Answered(r) /\ Answer(r).code = 500) =>
      /\ Answer(r).body.success = FALSE
      /\ "error" \in DOMAIN Answer(r).body
      /\ "task_id" \in DOMAIN Answer(r).body

\* C4 (amended): when the trigger call throws, a /trigger/* route answers
\* 500 with success=false, the error message and the task_id of its task; a
\* Slack route answers 500 with success=false and the error message only.
C4_ErrorAnswer ==
  \A r \in Posted :
    /\ (Answered(r) /\ Answer(r).code = 500) =>
         /\ Len(reqs[r].responses) = 1
         /\ reqs[r].handle = 0
         /\ IF OnTrigger(r)
              THEN Answer(r).body = [success |-> FALSE, error |-> "trigger failed",
                                     task_id |-> TaskOf(reqs[r].route)]
              ELSE Answer(r).body = [success |-> FALSE, error |-> "trigger failed"]
    /\ (Answered(r) /\ reqs[r].handle = 0 /\ ~(OnTrigger(r) /\ HasFalsyField(r))) =>
         Answer(r).code = 500

C4_Witness ==
  \E r \in ReqIds :
    /\ reqs[r].route = "/api/trigger/send-slack-message"
    /\ Answered(r)
    /\ Answer(r).code = 500
    /\ DOMAIN Answer(r).body = {"success", "error"}

\* C5: a request to a /trigger/* route gets one answer at most, and once
\* answered exactly one for good: 200 with status "triggered" and nothing of
\* the run's outcome, 400 with no trigger call, or 500; after the answer
\* nothing of the request changes.
C5_AnswerShape(r) ==
  /\ Len(reqs[r].responses) <= 1
  /\ Answered(r) <=> Len(reqs[r].responses) = 1
  /\ Answered(r) =>
       /\ Answer(r).code \in {200, 400, 500}
       /\ Answer(r).code = 200 =>
            /\ DOMAIN Answer(r).body =
                 {"success", "task_id", "run_id", "status", "triggered_at"}
            /\ Answer(r).body.status = "triggered"
       /\ Answer(r).code = 400 => reqs[r].handle = 0 /\ runs = <<>>

C5_OneAnswer ==
  /\ [](\A r \in ReqIds : OnTrigger(r) => C5_AnswerShape(r))
  /\ [][\A r \in ReqIds : (OnTrigger(r) /\ Answered(r)) => reqs'[r] = reqs[r]]_vars

C5_Witness ==
  \E r \in ReqIds :
    /\ OnTrigger(r) /\ Answered(r)
    /\ Answer(r).code = 200
    /\ Answer(r).body.status = "triggered"
    /\ runs[reqs[r].handle].state = "failed"

\* The attempts a run gets: one under the dev server, maxAttempts elsewhere.
AttemptsGiven == IF devMode THEN 1 ELSE maxAttempts

\* C6 (as stated): a run in the failed state was attempted exactly
\* maxAttempts times.
C6_Original ==
  \A id \in RunIds : runs[id].state = "failed" => runs[id].attempt = maxAttempts

\* C6 (amended): a run whose every attempt failed was attempted exactly
\* maxAttempts times where retries are enabled, and once under the dev
\* server (retries.enabledInDev is false), whatever threw; it is then in the
\* failed state, and a failed run never changes again.
C6_AttemptsExhausted ==
  /\ [](\A id \in RunIds :
          /\ runs[id].attempt <= AttemptsGiven
          /\ runs[id].state = "failed" => runs[id].attempt = AttemptsGiven
          /\ runs[id].pc = "retry" => runs[id].attempt < AttemptsGiven)
  /\ [][\A id \in RunIds : runs[id].state = "failed" => runs'[id] = runs[id]]_vars

C6_Witness ==
  \E id \in RunIds :
    /\ runs[id].task = CG
    /\ ~runs[id].payload.hasIntegrations
    /\ runs[id].state = "failed"
    /\ runs[id].attempt = 3

\* C7: the attempt after a failed one starts at the first statement of the
\* run function with fresh locals and the payload the run was triggered
\* with; nothing an earlier attempt computed is there when it starts.
C7_RetryRestarts ==
  /\ [](\A id \in RunIds : runs[id].pc = "start" => runs[id].loc = InitLocals)
  /\ [](\A r \in ReqIds : reqs[r].handle # 0 =>
          runs[reqs[r].handle].payload = TriggerArgs(reqs[r].route, reqs[r].payload))
  /\ [][\A id \in RunIds :
          (runs[id].pc = "retry" /\ runs'[id] # runs[id]) =>
            /\ runs'[id].pc = "start"
            /\ runs'[id].state = "running"
            /\ runs'[id].attempt = runs[id].attempt + 1
            /\ runs'[id].loc = InitLocals
            /\ runs'[id].payload = runs[id].payload]_vars

C7_Witness ==
  \E id \in RunIds :
    /\ runs[id].attempt = 2
    /\ runs[id].pc = "start"
    /\ runs[id].delivered = 1
    /\ runs[id].loc.notified = 0

AfterNotifyStep(run) ==
  run.pc \in {"tweet", "tweeted", "monitor", "update"} \/ run.state = "succeeded"

\* C8: a product-hunt-launch attempt with slackWebhook set that gets past
\* the notification step has POSTed the notification itself, however many
\* notifications earlier attempts of the run delivered; so one run delivers
\* up to one notification per attempt.
C8_NotificationPerAttempt ==
  \A id \in RunIds :
    (runs[id].task = PHL /\ runs[id].payload.slackWebhook) =>
      /\ AfterNotifyStep(runs[id]) => runs[id].loc.notified = 1
      /\ runs[id].loc.notified <= runs[id].delivered
      /\ runs[id].delivered <= runs[id].attempt

C8_Witness ==
  \E id \in RunIds :
    /\ runs[id].task = PHL
    /\ runs[id].payload.slackWebhook
    /\ runs[id].delivered = maxAttempts

C10_NothingBeforeLaunch ==
  \A id \in RunIds :
    (runs[id].task = PHL /\ now < runs[id].payload.launchDate) =>
      /\ runs[id].delivered = 0
      /\ runs[id].loc.notified = 0
      /\ runs[id].loc.tweets = 0
      /\ runs[id].loc.updates = 0
      /\ runs[id].pc \in {"start", "notify", "thrown", "retry", "end"}
      /\ runs[id].pc = "notify" =>
           runs[id].state = "suspended" /\ runs[id].wake = runs[id].payload.launchDate
      /\ runs[id].state # "succeeded"

C10_Witness ==
  \E id \in RunIds :
    /\ runs[id].task = PHL
    /\ runs[id].payload.slackWebhook
    /\ now < runs[id].payload.launchDate
    /\ runs[id].state = "suspended"
    /\ runs[id].pc = "notify"

(* ------------------------------- C11 ---------------------------------- *)

RetryTasks == {PHL, CG, AT}

\* The delays of failed attempts 1 .. MaxFailed as the retry blocks give
\* them: the first three of each task, the cap, the order.
DelaysAsDeclared ==
  /\ <<RetryDelay(PHL, 1), RetryDelay(PHL, 2), RetryDelay(PHL, 3)>> = <<1000, 2000, 4000>>
  /\ <<RetryDelay(AT, 1), RetryDelay(AT, 2), RetryDelay(AT, 3)>> = <<1000, 2000, 4000>>
  /\ <<RetryDelay(CG, 1), RetryDelay(CG, 2), RetryDelay(CG, 3)>> = <<2000, 4000, 8000>>
  /\ \A task \in RetryTasks : \A n \in 1 .. MaxFailed :
       /\ RetryDelay(task, n) <= RetryPolicy(task).maxTimeoutInMs
       /\ n > 1 => RetryDelay(task, n - 1) <= RetryDelay(task, n)

OnSlack(r) == reqs[r].route \in SlackRoutes

\* C12 (as stated): a run reads no state another request can write; the
\* Slack client a run builds is determined by the request that triggered
\* the run, whatever other requests do meanwhile.
C12_Original ==
  \A r \in Posted :
    (OnSlack(r) /\ reqs[r].handle # 0) =>
      runs[reqs[r].handle].loc.client \in {"none", reqs[r].payload.slack_bot_token}

\* C13: a Slack run builds its client from the process-wide token as it is
\* when the run function executes, which is the token of the Slack request
\* handled last, not that of the request the run was dispatched for.
C13_ReadsProcessToken ==
  [][\A id \in RunIds :
       (runs[id].loc.client = "none" /\ runs'[id].loc.client # "none") =>
         /\ runs'[id].loc.client = envToken
         /\ \E r \in Posted : OnSlack(r) /\ Handled(r)
                                /\ reqs[r].payload.slack_bot_token = envToken]_vars

\* Requests A and B with different tokens; the run dispatched for A has
\* built its client from B's token.
C13_Witness ==
  \E a \in Posted : \E b \in Posted :
    /\ OnSlack(a) /\ OnSlack(b)
    /\ reqs[a].payload.slack_bot_token # reqs[b].payload.slack_bot_token
    /\ reqs[a].handle # 0
    /\ runs[reqs[a].handle].loc.client = reqs[b].payload.slack_bot_token

(* ------------------------------- C14 ---------------------------------- *)

RunStates == {"queued", "running", "suspended", "succeeded", "failed"}

Transitions ==
  {<<"queued", "running">>, <<"running", "suspended">>, <<"suspended", "running">>,
   <<"running", "succeeded">>, <<"running", "failed">>}

C15_Original ==
  \A p \in Polls :
    (/\ reqs[p].stored = "failed"
     /\ \E r \in Posted : reqs[r].handle = reqs[p].payload.runId) =>
      Answer(p).body.status # "running"

\* C20: GET /runs/:runId answers 200 with the requested id and status
\* 'running' for every run id, whatever the substrate holds for that id: a
\* run that succeeded or failed, and an id no trigger call returned, are
\* reported 'running' too.
C20_AlwaysRunning ==
  \A p \in Polls :
    /\ Answered(p)
    /\ Len(reqs[p].responses) = 1
    /\ Answer(p).code = 200
    /\ Answer(p).body.id = reqs[p].payload.runId
    /\ Answer(p).body.status = "running"

C20_Witness ==
  \E p \in Polls :
    /\ reqs[p].stored = "succeeded"
    /\ Answer(p).body.id = reqs[p].payload.runId
    /\ Answer(p).body.status = "running"

(* ------------------------------- C17 ---------------------------------- *)

\* The requests whose trigger call returned a handle.
Triggered == {r \in Posted : reqs[r].handle # 0}

\* C17: the bridge keeps no idempotency record: every request that passed
\* validation and whose trigger call returned has a run of its own, also
\* when its route and payload equal those of another request, and there are
\* exactly as many runs as such requests; each run makes its own deliveries.
C17_RunPerRequest ==
  /\ Len(runs) = Cardinality(Triggered)
  /\ \A r \in Triggered :
       /\ reqs[r].handle \in RunIds
       /\ ~Invalid(reqs[r].route, reqs[r].payload)
       /\ runs[reqs[r].handle].task = TaskOf(reqs[r].route)
       /\ \A q \in Triggered : q # r => reqs[q].handle # reqs[r].handle
  /\ \A r \in Posted :
       (reqs[r].pc = "triggered" \/ (Answered(r) /\ Answer(r).code = 200)) => r \in Triggered
  /\ \A id \in RunIds :
       (runs[id].task = CG /\ runs[id].state = "succeeded") =>
         (runs[id].loc.slack = "ok" => runs[id].delivered >= 1)

\* Two accepted requests with the same route and payload, two runs, and
\* each run has made its own POST to the Slack webhook.
C17_Witness ==
  \E a \in Triggered : \E b \in Triggered :
    /\ a # b
    /\ reqs[a].route = "/trigger/content-generation"
    /\ reqs[a].route = reqs[b].route
    /\ reqs[a].payload = reqs[b].payload
    /\ reqs[a].handle # reqs[b].handle
    /\ runs[reqs[a].handle].delivered = 1
    /\ runs[reqs[b].handle].delivered = 1
    /\ Len(runs) = 2

(* ------------------------------- C18 ---------------------------------- *)

\* The step run id takes next is the wait until date, from position pc.
AtWaitUntil(id, task, pc, date) ==
  /\ runs[id].task = task
  /\ Running(id, pc)
  /\ date # NoDate
  /\ runs'[id] # runs[id]

\* C18: a wait until a date that is not in the future does not suspend the
\* run: the launch wait of product-hunt-launch goes straight on to the Slack
\* notification step, the scheduledDate waits of content-generation and
\* analytics-tracking straight on to publishing and to processing, the run
\* staying running.
C18_PastDateNoSuspend ==
  [][\A id \in RunIds :
       /\ (AtWaitUntil(id, PHL, "start", runs[id].payload.launchDate)
            /\ runs[id].payload.launchDate <= now) =>
             (runs'[id].state = "running" /\ runs'[id].pc = "notify")
       /\ (AtWaitUntil(id, CG, "generated", runs[id].payload.scheduledDate)
            /\ runs[id].payload.scheduledDate <= now) =>
             (runs'[id].state = "running" /\ runs'[id].pc = "publish")
       /\ (AtWaitUntil(id, AT, "start", runs[id].payload.scheduledDate)
            /\ runs[id].payload.scheduledDate <= now) =>
             (runs'[id].state = "running" /\ runs'[id].pc = "process")]_vars

\* A later attempt of a run whose launch date has passed meanwhile: it is
\* at the Slack step, running, in the hour its launch wait was entered.
C18_Witness ==
  \E id \in RunIds :
    /\ runs[id].task = PHL
    /\ runs[id].attempt = 2
    /\ runs[id].payload.launchDate = 0
    /\ now > 0
    /\ runs[id].state = "running"
    /\ runs[id].pc = "notify"
    /\ runs[id].loc.waits = <<"notify">>

(* ------------------------------- C19 ---------------------------------- *)

IsPrefix(s, t) == Len(s) <= Len(t) /\ s = SubSeq(t, 1, Len(s))

\* The awaited waits of the product-hunt-launch run function, in the order
\* of the source: the launch date, one per tweet, one per monitoring update.
PHLWaits ==
  <<"notify">> \o [i \in 1 .. Len(tweetTimes) |-> "tweeted"]
               \o [i \in 1 .. (monitoringHours \div updateInterval) |-> "update"]

WithBoth(id) ==
  /\ runs[id].task = PHL
  /\ runs[id].payload.slackWebhook
  /\ runs[id].payload.twitterHandle

\* C19: an attempt has at most one wait pending and enters its waits in the
\* order of the source.  For product-hunt-launch with slackWebhook and
\* twitterHandle: the launch-date wait, the three tweet waits, the six
\* two-hour monitoring waits; a wait is entered by a running run only, that
\* is after the wait before it has resumed, and a monitoring wait suspends
\* the run until two hours later.
C19_WaitsInOrder ==
  /\ [](\A id \in RunIds :
          WithBoth(id) =>
            /\ IsPrefix(runs[id].loc.waits, PHLWaits)
            /\ runs[id].state = "succeeded" => runs[id].loc.waits = PHLWaits
            /\ runs[id].state = "suspended" =>
                 runs[id].pc = runs[id].loc.waits[Len(runs[id].loc.waits)])
  /\ [][\A id \in RunIds :
          (WithBoth(id) /\ Len(runs'[id].loc.waits) > Len(runs[id].loc.waits)) =>
            /\ runs[id].state = "running"
            /\ Len(runs'[id].loc.waits) = Len(runs[id].loc.waits) + 1
            /\ runs'[id].pc = "update" =>
                 (runs'[id].state = "suspended" /\ runs'[id].wake = now + updateInterval)]_vars

\* A first attempt that went through all ten waits and returned.
C19_Witness ==
  \E id \in RunIds :
    /\ WithBoth(id)
    /\ runs[id].attempt = 1
    /\ runs[id].state = "succeeded"
    /\ runs[id].loc.waits = PHLWaits
    /\ Len(PHLWaits) = 10

(* ------------------------------- C21 ---------------------------------- *)

IsPHL(id) == runs[id].task = PHL

\* The attempt of run id is over: the run ended, or the attempt failed and
\* a later one is due.
AttemptOver(id) ==
  runs[id].state \in {"succeeded", "failed"} \/ runs[id].pc = "retry"

C22_Original ==
  \A id \in RunIds :
    IsPHL(id) =>
      \A i \in 1 .. Len(runs[id].loc.tweetedAt) :
        runs[id].loc.tweetedAt[i] = runs[id].loc.tweetedAt[1] + tweetTimes[i]

(* ----------------------------- C23, C26 ------------------------------- *)

IsCG(id) == runs[id].task = CG

\* Attempt of run id has begun to publish, or is past publishing.
Publishing(id) ==
  \/ runs[id].pc \in {"notionDone", "slack", "summary"}
  \/ runs[id].loc.notion # "unset"
  \/ runs[id].loc.slack # "unset"
  \/ runs[id].state = "succeeded"

\* C23: in every attempt of a content-generation run the steps come in the
\* order generate, wait for scheduledDate when given, publish, summary: no
\* publish call to Notion or Slack is made before the content is generated
\* nor, when scheduledDate is given, before that date is reached.
C23_StepsInOrder ==
  \A id \in RunIds :
    IsCG(id) =>
      /\ IsPrefix(runs[id].loc.waits, <<"generated", "publish", "notionDone">>)
           \/ IsPrefix(runs[id].loc.waits, <<"generated", "notionDone">>)
      /\ runs[id].payload.scheduledDate # NoDate =>
           IsPrefix(runs[id].loc.waits, <<"generated", "publish", "notionDone">>)
      /\ Publishing(id) =>
           /\ runs[id].loc.generated
           /\ runs[id].payload.scheduledDate # NoDate =>
                now >= runs[id].payload.scheduledDate
      /\ (runs[id].pc = "publish" /\ runs[id].state = "running") =>
           (runs[id].payload.scheduledDate # NoDate =>
              now >= runs[id].payload.scheduledDate)

\* A run with a scheduledDate in the future at its start has posted to
\* Slack, in its first attempt.
C23_Witness ==
  \E id \in RunIds :
    /\ IsCG(id)
    /\ runs[id].attempt = 1
    /\ runs[id].payload.scheduledDate = 1
    /\ runs[id].loc.waits = <<"generated", "publish">>
    /\ runs[id].loc.slack = "ok"

\* C26: publishResults has an entry for notion, slack exactly when the
\* integration is configured in the payload; publishedTo and
\* failedPublications of the summary are disjoint, together the keys of
\* publishResults, and an integration is in publishedTo exactly when its
\* entry has success true.
C26_ResultsPartition ==
  \A id \in RunIds :
    (IsCG(id) /\ runs[id].state = "succeeded") =>
      \E res \in runs[id].result :
        /\ runs[id].result = {res}
        /\ DOMAIN res.publishResults = runs[id].payload.integrations
        /\ LET summary == runs[id].loc.summary IN
             /\ summary.publishedTo \cap summary.failedPublications = {}
             /\ summary.publishedTo \cup summary.failedPublications
                  = runs[id].payload.integrations
             /\ \A k \in runs[id].payload.integrations :
                  k \in summary.publishedTo <=> res.publishResults[k].success

\* Both integrations configured, Notion published, the Slack POST failed.
C26_Witness ==
  \E id \in RunIds :
    /\ IsCG(id)
    /\ runs[id].state = "succeeded"
    /\ runs[id].payload.integrations = {"notion", "slack"}
    /\ runs[id].loc.summary = [publishedTo |-> {"notion"}, failedPublications |-> {"slack"}]

(* ------------------------------- C24 ---------------------------------- *)

\* The conversations.create calls run id has made.
Creates(id) ==
  {i \in 1 .. Len(runs[id].sdk) : runs[id].sdk[i][1] = "conversations.create"}

\* C24: createSlackChannel starts every attempt with conversations.create:
\* after a welcome chat.postMessage that threw, the next call of the run is
\* conversations.create again, never the welcome message; the run has made
\* one create call per attempt, up to the number of attempts it is given.
C24_CreateRepeated ==
  \A id \in RunIds :
    runs[id].task = SLACK_CHANNEL =>
      /\ \A i \in 1 .. Len(runs[id].sdk) - 1 :
           runs[id].sdk[i][2] = "throws" =>
             runs[id].sdk[i + 1][1] = "conversations.create"
      /\ \A i \in 1 .. Len(runs[id].sdk) :
           runs[id].sdk[i][1] = "chat.postMessage" =>
             (i > 1 /\ runs[id].sdk[i - 1] = <<"conversations.create", "ok">>)
      /\ Cardinality(Creates(id)) <= AttemptLimit
      /\ Cardinality(Creates(id)) =
           IF runs[id].attempt = 0 THEN 0
           ELSE IF runs[id].state = "running" /\ runs[id].loc.calls = 0
                   /\ runs[id].pc \in {"start", "call"}
             THEN runs[id].attempt - 1
             ELSE runs[id].attempt

\* The channel was created and the welcome message failed, three times.
C24_Witness ==
  \E id \in RunIds :
    /\ runs[id].task = SLACK_CHANNEL
    /\ runs[id].state = "failed"
    /\ runs[id].sdk = <<<<"conversations.create", "ok">>, <<"chat.postMessage", "throws">>,
                        <<"conversations.create", "ok">>, <<"chat.postMessage", "throws">>,
                        <<"conversations.create", "ok">>, <<"chat.postMessage", "throws">>>>
    /\ Cardinality(Creates(id)) = maxAttempts

(* ------------------------------- C25 ---------------------------------- *)

\* The Slack requests whose handler runs in this step.
Writing == {r \in Posted : OnSlack(r) /\ reqs[r].pc = "arrived" /\ reqs'[r].pc # "arrived"}

\* C25: a Slack handler writes its request's slack_bot_token to the process
\* environment before it calls trigger, and no other step changes the
\* variable: not the answer, 200 or 500, of any request.  Once a Slack
\* request is handled the variable holds the token of a handled Slack
\* request, never again the value from before.
C25_TokenNotRestored ==
  /\ [](\A r \in Posted :
          (OnSlack(r) /\ Handled(r)) =>
            \E q \in Posted : /\ OnSlack(q) /\ Handled(q)
                              /\ envToken = reqs[q].payload.slack_bot_token)
  /\ [][/\ \A r \in Writing :
             /\ envToken' = reqs[r].payload.slack_bot_token
             /\ reqs'[r].pc = "awaitTrigger"
             /\ reqs'[r].handle = 0
        /\ Writing = {} => envToken' = envToken]_vars

\* Request a was answered 200, request b wrote its token afterwards and was
\* answered 500: the variable still holds b's token.
C25_Witness ==
  \E a \in Posted : \E b \in Posted :
    /\ OnSlack(a) /\ OnSlack(b)
    /\ reqs[a].payload.slack_bot_token # reqs[b].payload.slack_bot_token
    /\ Answered(a) /\ Answer(a).code = 200
    /\ Answered(b) /\ Answer(b).code = 500
    /\ envToken = reqs[b].payload.slack_bot_token

(* ------------------------------- C27 ---------------------------------- *)

\* C27: the fields analytics-tracking sets itself win over the caller's
\* properties: event_processed has event_type = payload.eventType, user_id =
\* payload.userId, timestamp = payload.timestamp and source =
\* "agentos_automation" also when properties has keys of those names, and
\* keeps the caller's other keys; alerts_triggered holds exactly one alert
\* for eventType "product_launch" or "signup_spike" and none otherwise.
C27_ReservedFieldsWin ==
  \A id \in RunIds :
    (runs[id].task = AT /\ runs[id].state = "succeeded") =>
      \E res \in runs[id].result :
        /\ runs[id].result = {res}
        /\ res.success
        /\ res.event_processed["event_type"] = runs[id].payload.eventType
        /\ res.event_processed["user_id"] = runs[id].payload.userId
        /\ res.event_processed["timestamp"] = runs[id].payload.timestamp
        /\ res.event_processed["source"] = "agentos_automation"
        /\ \A k \in DOMAIN runs[id].payload.properties :
             k \in DOMAIN res.event_processed
        /\ Len(res.alerts_triggered) =
             IF runs[id].payload.eventType \in {"product_launch", "signup_spike"}
               THEN 1 ELSE 0

\* The caller's properties name the reserved fields; the event is critical.
C27_Witness ==
  \E id \in RunIds :
    /\ runs[id].task = AT
    /\ runs[id].state = "succeeded"
    /\ "source" \in DOMAIN runs[id].payload.properties
    /\ runs[id].payload.properties["source"] = "spoofed"
    /\ runs[id].payload.eventType = "signup_spike"
    /\ \E res \in runs[id].result :
         /\ res.event_processed["source"] = "agentos_automation"
         /\ Len(res.alerts_triggered) = 1

\* The reply a finished call of sendMessage got.
ReplyOf(k) == CHOOSE r \in chat.calls[k].reply : TRUE

\* The k-th call got an ok response whose body carries a conversation_id.
Supplies(k) ==
  /\ chat.calls[k].reply # {}
  /\ ReplyOf(k).kind = "ok"
  /\ Truthy(ReplyOf(k).conversation_id)

\* The first of the calls before the k-th whose response supplied an id.
FirstSupplied(k) ==
  {j \in 1 .. k - 1 : Supplies(j) /\ \A i \in 1 .. j - 1 : ~Supplies(i)}

Pending == {k \in DOMAIN chat.calls : chat.calls[k].reply = {}}

\* What one call of sendMessage puts in the message list: the user message,
\* then, once it is over, the System error message if the request failed
\* and the agent responses of the reply if it did not.
Block(k) ==
  <<UserMessage(chat.calls[k].input)>> \o
  (IF chat.calls[k].reply = {} THEN <<>>
   ELSE IF ReplyOf(k).kind # "ok" THEN <<ErrorMessage>>
   ELSE AgentMessages(ReplyOf(k).agent_responses))

RECURSIVE Transcript(_)
Transcript(n) == IF n = 0 THEN <<>> ELSE Transcript(n - 1) \o Block(n)

\* C29: at most one chat request is in flight, every accepted sendMessage
\* had a non-blank input, isLoading is true exactly while a request is in
\* flight (so false after every finished sendMessage, failed or not), and
\* the message list is, call after call, one user message followed by
\* either the agent responses of the reply or one System error message.
C29_OneInFlight ==
  /\ Cardinality(Pending) <= 1
  /\ \A k \in DOMAIN chat.calls : Trim(chat.calls[k].input) # <<>>
  /\ chat.isLoading <=> Pending # {}
  /\ chat.messages = Transcript(Len(chat.calls))

\* Two messages were sent, one answered by two agents and one failed, and
\* the page is idle again.
C29_Witness ==
  /\ Len(chat.calls) = 2
  /\ Pending = {}
  /\ ReplyOf(1).kind = "ok" /\ Len(ReplyOf(1).agent_responses) = 2
  /\ ReplyOf(2).kind = "rejected"
  /\ ~chat.isLoading
  /\ Len(chat.messages) = 5

====
